---- MODULE Spec2Model ----
(***************************************************************************)
(* Deduplication engine of dataprep (src/src/dataprep/text/deduplicator.py) *)
(* ExactDeduplicator, FuzzyDeduplicator and SoftDeduplicator as one state  *)
(* machine.  A caller owns a list of documents, constructs exactly one     *)
(* deduplicator and feeds the list to it, call after call.                 *)
(***************************************************************************)
EXTENDS Integers, Sequences, FiniteSets, TLC

(***************************************************************************)
(* Bounds of the model.                                                    *)
(***************************************************************************)
\* longest document list the caller passes to one deduplicate call
MaxLen == 3
\* cap on the total length of the Soft cluster lists (they grow call after call)
MaxMembers == 3

(***************************************************************************)
(* Texts.  A text is a sequence of characters; a character is a number:    *)
(* 0 is a blank, 1..26 are the lower-case letters, 101..126 the same       *)
(* letters in upper case.                                                  *)
(***************************************************************************)
Blank == 0
UpperOffset == 100

tA  == <<1, 2, 3, 4, 5, 6>>
tB  == <<2, 3, 4, 5, 6, 7>>
tC  == <<3, 4, 5, 6, 7, 8>>
tD  == <<9, 9, 8, 8, 7, 7>>
\* tA in another case and with a blank inside
tA2 == <<101, 2, 0, 3, 4, 5, 106>>
\* shorter than one n-gram
tS  == <<1, 2>>
tEmpty == <<>>

\* a weight is a rational number <<numerator, denominator>>, denominator > 0
One == <<1, 1>>
Half == <<1, 2>>
\* the reweight_factor values the caller configures
ReweightFactors == {Half, <<2, 1>>}

Leq(x, y) == x[1] * y[2] <= y[1] * x[2]

(***************************************************************************)
(* Documents are Python dicts: functions from field names to values.       *)
(***************************************************************************)
dA      == [text |-> tA]
dB      == [text |-> tB]
dC      == [text |-> tC]
dD      == [text |-> tD]
dA2     == [text |-> tA2]
dS      == [text |-> tS]
dEmpty  == [text |-> tEmpty]
dNoText == [id |-> 2]
\* blanks only: not empty, but nothing is left of it after normalisation
dW      == [text |-> <<Blank>>]
\* the text of dA in a different record, which already carries a weight
dAw     == [text |-> tA, weight |-> <<7, 1>>]

\* doc.get("text", "")
GetText(doc) == IF "text" \in DOMAIN doc THEN doc["text"] ELSE tEmpty

\* `if not text: continue`
IsSkippedNever(text) == FALSE

IsSkipped(text) == text = tEmpty

(***************************************************************************)
(* ExactDeduplicator._hash_text: a digest of the text's bytes.  The        *)
(* digest has a fixed width, so two different texts can share one; the     *)
(* model's digest has HashRange values instead of 2^64, and tA and tS      *)
(* share theirs.                                                           *)
(***************************************************************************)
HashRange == 11

RECURSIVE Digest(_, _)
Digest(text, acc) ==
    IF text = <<>> THEN acc
    ELSE Digest(Tail(text), (acc * 5 + Head(text)) % HashRange)

_hash_text(text) == Digest(text, 5)

(***************************************************************************)
(* ExactDeduplicator.deduplicate                                           *)
(***************************************************************************)
\* `if doc_hash not in self.seen_hashes`
IsNewAlways(seen, doc_hash) == TRUE

IsNew(seen, doc_hash) == doc_hash \notin seen

\* self.seen_hashes.add(doc_hash)
AddHashDropsOthers(seen, h) == {h}

AddHashForgets(seen, h) == seen

AddHash(seen, h) == seen \cup {h}

\* unique_docs.append(doc)
KeepDocInFront(unique, doc) == <<doc>> \o unique

KeepDoc(unique, doc) == Append(unique, doc)

RECURSIVE ExactLoop(_, _, _, _)
ExactLoop(docs, seen, unique, dups) ==
    IF docs = <<>>
    THEN [seen_hashes |-> seen, unique_docs |-> unique, duplicates |-> dups]
    ELSE LET doc  == Head(docs)
             text == GetText(doc)
         IN  IF IsSkipped(text)
             THEN ExactLoop(Tail(docs), seen, unique, dups)
             ELSE LET doc_hash == _hash_text(text)
                  IN  IF IsNew(seen, doc_hash)
                      THEN ExactLoop(Tail(docs), AddHash(seen, doc_hash),
                                     KeepDoc(unique, doc), dups)
                      ELSE ExactLoop(Tail(docs), seen, unique, dups + 1)

(***************************************************************************)
(* MinHash signatures (datasketch.MinHash as _create_minhash uses it).     *)
(* A signature holds, per permutation, the least permuted hash of the      *)
(* text's character n-grams; no n-gram leaves the initial MaxHash.         *)
(* The configuration is num_perm = 4, split by the index into 2 bands of   *)
(* 2 rows; the hash of a token and the permutations (a * h + b) % Prime    *)
(* range over small numbers instead of 32 and 61 bits.  With them tA and   *)
(* tB share band 1, tB and tC share band 2, tA and tC share none, tD       *)
(* shares none with any of them.                                           *)
(***************************************************************************)
ngram_size == 5
Bands == 2
Rows == 2
num_perm == Bands * Rows
TokenRange == 251
Prime == 19
MaxHash == 19
PermA == <<15, 7, 1, 4>>
PermB == <<3, 0, 17, 9>>

Min(x, y) == IF x <= y THEN x ELSE y

\* text.lower()
Lower(c) == IF c > UpperOffset THEN c - UpperOffset ELSE c

NotBlank(c) == c # Blank

\* text = text.lower(); text = "".join(text.split())
Normalize(text) == SelectSeq([i \in DOMAIN text |-> Lower(text[i])], NotBlank)

\* [text[i : i + n] for i in range(len(text) - n + 1)]
_get_ngrams(text, n) ==
    LET t == Normalize(text)
    IN  [i \in 1..(Len(t) - n + 1) |-> SubSeq(t, i, i + n - 1)]

RECURSIVE TokenHash(_, _)
TokenHash(token, acc) ==
    IF token = <<>> THEN acc
    ELSE TokenHash(Tail(token), (acc * 31 + Head(token)) % TokenRange)

\* MinHash.update(token)
Update(hashvalues, token) ==
    [k \in 1..num_perm |->
        Min(hashvalues[k], (PermA[k] * TokenHash(token, 0) + PermB[k]) % Prime)]

RECURSIVE UpdateAll(_, _)
UpdateAll(hashvalues, tokens) ==
    IF tokens = <<>> THEN hashvalues
    ELSE UpdateAll(Update(hashvalues, Head(tokens)), Tail(tokens))

\* MinHash(num_perm), then update with every token
MinHashOf(tokens) == UpdateAll([k \in 1..num_perm |-> MaxHash], tokens)

(***************************************************************************)
(* The LSH index (datasketch.MinHashLSH): the inserted keys and, per band, *)
(* the buckets: <<band, the band's slice of the signature, key>>.          *)
(***************************************************************************)
EmptyLSH == [keys |-> {}, hashtables |-> {}]

BandKey(minhash, b) == SubSeq(minhash, (b - 1) * Rows + 1, b * Rows)

\* lsh.query(minhash): the keys that share a bucket with minhash in some band
QueryEverything(index, minhash) == index.keys

QueryFirstBand(index, minhash) ==
    {t[3] : t \in {u \in index.hashtables : u[1] = 1 /\ u[2] = BandKey(minhash, 1)}}

Query(index, minhash) ==
    {t[3] : t \in {u \in index.hashtables : u[2] = BandKey(minhash, u[1])}}

\* lsh.insert(key, minhash) raises ValueError for a key that is already in the
\* index (check_duplication is on by default) and then changes nothing
InsertRaises(index, key) == key \in index.keys

InsertSkipped(index, key, minhash) == index

Insert(index, key, minhash) ==
    [keys |-> index.keys \cup {key},
     hashtables |-> index.hashtables \cup
                      {<<b, BandKey(minhash, b), key>> : b \in 1..Bands}]

\* doc_id = f"doc_{i}"
DocId(i) == i

(***************************************************************************)
(* State.                                                                  *)
(***************************************************************************)
VARIABLES
    method,        \* the deduplicator that was constructed, "none" before
    documents,     \* the caller's list, passed to deduplicate
    pc,            \* where the caller / the running call is
    unique_docs,   \* Exact, Fuzzy: the list a call builds and returns
    duplicates,    \* Exact, Fuzzy: the call's duplicate counter
    seen_hashes,   \* ExactDeduplicator.seen_hashes
    idx,           \* Fuzzy, Soft: how many elements the running loop has taken
    lsh,           \* FuzzyDeduplicator.lsh; Soft: the lsh of _cluster_documents
    doc_minhashes,    \* FuzzyDeduplicator.doc_minhashes; Soft: the list of pass 1
    reweight_factor,  \* SoftDeduplicator.reweight_factor
    clusters,         \* SoftDeduplicator.clusters: cluster id -> list of positions
    doc_to_cluster,   \* SoftDeduplicator.doc_to_cluster: position -> cluster id
    cluster_counter,  \* Soft: the counter of the running _cluster_documents
    weighted_docs,    \* Soft: the list a call returns
    config,           \* the config dict the deduplicator was constructed with
    DATASKETCH_AVAILABLE,  \* the module flag the import of datasketch sets
    deduplicators,    \* TextPipeline.deduplicators: the names it holds
    deduplication_mode,  \* TextPipeline.deduplication_mode
    phase,            \* history: "new", "used" since construction or reset, "reset"
    earlier,          \* history: what the caller of Soft noted of its returned calls
    transforms,       \* Pipeline.transforms
    _fitted,          \* Pipeline._fitted
    metadata,         \* what the last Pipeline.get_metadata returned
    result,           \* <<frame>>: what the last Pipeline call returned or wrote
                      \* to its sink; <<>> if it produced no frame
    applied           \* history: the positions the last Pipeline.transform applied

vars == <<method, documents, pc, unique_docs, duplicates, seen_hashes,
          idx, lsh, doc_minhashes, reweight_factor, clusters, doc_to_cluster,
          cluster_counter, weighted_docs, config, DATASKETCH_AVAILABLE,
          deduplicators, deduplication_mode, phase, earlier, transforms,
          _fitted, metadata, result, applied>>

buildVars == <<config, DATASKETCH_AVAILABLE, deduplicators, deduplication_mode>>
pipelineVars == <<transforms, _fitted, metadata, result, applied>>

exactVars == <<seen_hashes>>
fuzzyVars == <<idx, lsh, doc_minhashes>>
softVars == <<reweight_factor, clusters, doc_to_cluster, cluster_counter, weighted_docs>>

(***************************************************************************)
(* The config dict of a deduplicator: a function from the keys the caller  *)
(* set to their values; thresholds are rationals like the weights.         *)
(***************************************************************************)
\* config.get(key, default)
Get(cfg, key, default) == IF key \in DOMAIN cfg THEN cfg[key] ELSE default

\* the config of a caller who sets num_perm and nothing else
BaseConfig == "num_perm" :> num_perm

DefaultNumPerm == 128
FuzzyDefaultThreshold == <<4, 5>>
SoftDefaultThreshold == <<17, 20>>

\* self.num_perm, of Fuzzy and of Soft
self_num_perm == Get(config, "num_perm", DefaultNumPerm)

\* FuzzyDeduplicator: self.threshold and self.ngram_size
self_threshold == Get(config, "threshold", FuzzyDefaultThreshold)

self_ngram_size == Get(config, "ngram_size", ngram_size)

\* SoftDeduplicator: self.similarity_threshold
self_similarity_threshold == Get(config, "similarity_threshold", SoftDefaultThreshold)

\* SoftDeduplicator._create_minhash slices text[i : i + 5]
SoftShingle == 5

\* FuzzyDeduplicator._create_minhash
_create_minhash(text) == MinHashOf(_get_ngrams(text, self_ngram_size))

\* SoftDeduplicator._create_minhash
Soft_create_minhash(text) == MinHashOf(_get_ngrams(text, SoftShingle))

\* datasketch: MinHashLSH(threshold, num_perm) raises ValueError for a
\* threshold outside [0, 1] and for fewer than two permutations
LSHRejects(threshold, n) ==
    \/ ~Leq(<<0, 1>>, threshold)
    \/ ~Leq(threshold, One)
    \/ n < 2

\* history: reset after use is "reset"; on a new instance there is nothing
\* to start afresh from
AfterReset(ph) == IF ph = "new" THEN "new" ELSE "reset"

Pool ==
    CASE method = "exact" -> {dA, dAw, dB, dA2, dS, dEmpty, dNoText}
      [] method = "fuzzy" -> {dA, dB, dC, dS, dW, dEmpty}
      [] method = "soft" -> {dAw, dB, dD, dNoText}
      [] OTHER -> {dA, dB, dS, dEmpty}

InitWith(methods) ==
    /\ method \in methods
    /\ documents = <<>>
    /\ pc = "idle"
    /\ unique_docs = <<>>
    /\ duplicates = 0
    /\ seen_hashes = {}
    /\ idx = 0
    /\ lsh = EmptyLSH
    /\ doc_minhashes = <<>>
    /\ reweight_factor \in IF method = "soft" THEN ReweightFactors ELSE {Half}
    /\ clusters = <<>>
    /\ doc_to_cluster = <<>>
    /\ cluster_counter = 0
    /\ weighted_docs = <<>>
    /\ config = BaseConfig
    /\ DATASKETCH_AVAILABLE = TRUE
    /\ deduplicators = {}
    /\ deduplication_mode = "soft"
    /\ phase = "new"
    /\ earlier = {}
    /\ transforms = <<>>
    /\ _fitted = FALSE
    /\ metadata = <<>>
    /\ result = <<>>
    /\ applied = <<>>

(***************************************************************************)
(* The caller prepares the list for the next call.                         *)
(***************************************************************************)
\* where a call leaves the caller: it returned, or raised the ValueError of
\* lsh.insert ("raised"), the ValueError of MinHashLSH(...) ("rejected"),
\* the ImportError of a constructor ("unavailable"), the ValueError of
\* deduplicate_documents ("unknown")
Ended == {"returned", "raised", "rejected", "unavailable", "unknown"}

NewBatch ==
    /\ pc \in Ended
    /\ documents' = <<>>
    /\ pc' = "idle"
    /\ unique_docs' = <<>>
    /\ duplicates' = 0
    /\ weighted_docs' = <<>>
    /\ UNCHANGED <<buildVars, pipelineVars, phase, earlier>>
    /\ UNCHANGED <<method, exactVars, fuzzyVars, reweight_factor, clusters,
                   doc_to_cluster, cluster_counter>>

AppendDoc ==
    /\ pc = "idle"
    /\ Len(documents) < MaxLen
    /\ \E d \in Pool : documents' = Append(documents, d)
    /\ UNCHANGED <<buildVars, pipelineVars, phase, earlier>>
    /\ UNCHANGED <<method, pc, unique_docs, duplicates, exactVars, fuzzyVars, softVars>>

ExactDeduplicate ==
    /\ method = "exact"
    /\ pc \in {"idle", "returned"}
    /\ LET r == ExactLoop(documents, seen_hashes, <<>>, 0)
       IN  /\ seen_hashes' = r.seen_hashes
           /\ unique_docs' = r.unique_docs
           /\ duplicates' = r.duplicates
    /\ pc' = "returned"
    /\ phase' = "used"
    /\ UNCHANGED <<buildVars, pipelineVars, earlier>>
    /\ UNCHANGED <<method, documents, fuzzyVars, softVars>>

ExactReset ==
    /\ method = "exact"
    /\ pc \in {"idle", "returned"}
    /\ seen_hashes' = {}
    /\ pc' = "idle"
    /\ unique_docs' = <<>>
    /\ duplicates' = 0
    /\ phase' = AfterReset(phase)
    /\ UNCHANGED <<buildVars, pipelineVars, earlier>>
    /\ UNCHANGED <<method, documents, fuzzyVars, softVars>>

(***************************************************************************)
(* FuzzyDeduplicator.deduplicate, one loop iteration per step.             *)
(***************************************************************************)
FuzzyDeduplicate ==
    /\ method = "fuzzy"
    /\ pc \in {"idle", "returned", "raised"}
    /\ unique_docs' = <<>>
    /\ duplicates' = 0
    /\ idx' = 0
    /\ pc' = "loop"
    /\ phase' = "used"
    /\ UNCHANGED <<buildVars, pipelineVars, earlier>>
    /\ UNCHANGED <<method, documents, exactVars, lsh, doc_minhashes, softVars>>

FuzzyStep ==
    /\ method = "fuzzy"
    /\ pc = "loop"
    /\ idx < Len(documents)
    /\ LET doc  == documents[idx + 1]
           text == GetText(doc)
       IN  IF IsSkipped(text)
           THEN /\ idx' = idx + 1
                /\ UNCHANGED <<pc, unique_docs, duplicates, lsh, doc_minhashes>>
           ELSE LET minhash == _create_minhash(text)
                    similar == Query(lsh, minhash)
                    doc_id  == DocId(idx)
                IN  IF similar = {}
                    THEN IF InsertRaises(lsh, doc_id)
                         THEN \* ValueError leaves deduplicate; its locals are gone
                              /\ pc' = "raised"
                              /\ unique_docs' = <<>>
                              /\ duplicates' = 0
                              /\ idx' = 0
                              /\ UNCHANGED <<lsh, doc_minhashes>>
                         ELSE /\ lsh' = Insert(lsh, doc_id, minhash)
                              /\ doc_minhashes' = (doc_id :> minhash) @@ doc_minhashes
                              /\ unique_docs' = KeepDoc(unique_docs, doc)
                              /\ idx' = idx + 1
                              /\ UNCHANGED <<pc, duplicates>>
                    ELSE /\ duplicates' = duplicates + 1
                         /\ idx' = idx + 1
                         /\ UNCHANGED <<pc, unique_docs, lsh, doc_minhashes>>
    /\ UNCHANGED <<buildVars, pipelineVars, phase, earlier>>
    /\ UNCHANGED <<method, documents, exactVars, softVars>>

FuzzyReturn ==
    /\ method = "fuzzy"
    /\ pc = "loop"
    /\ idx = Len(documents)
    /\ pc' = "returned"
    /\ idx' = 0
    /\ UNCHANGED <<buildVars, pipelineVars, phase, earlier>>
    /\ UNCHANGED <<method, documents, unique_docs, duplicates, exactVars,
                   lsh, doc_minhashes, softVars>>

FuzzyReset ==
    /\ method = "fuzzy"
    /\ pc \in {"idle", "returned", "raised"}
    /\ lsh' = EmptyLSH
    /\ doc_minhashes' = <<>>
    /\ pc' = "idle"
    /\ unique_docs' = <<>>
    /\ duplicates' = 0
    /\ phase' = AfterReset(phase)
    /\ UNCHANGED <<buildVars, pipelineVars, earlier>>
    /\ UNCHANGED <<method, documents, exactVars, idx, softVars>>

(***************************************************************************)
(* SoftDeduplicator.deduplicate: the MinHash pass, then _cluster_documents *)
(* one loop iteration per step, then the weight pass and the return.       *)
(***************************************************************************)
\* pass 1: the (i, minhash) pairs of the documents with text, i 0-based
RECURSIVE DocMinhashes(_, _)
DocMinhashes(docs, i) ==
    IF i = Len(docs) THEN <<>>
    ELSE LET text == GetText(docs[i + 1])
         IN  IF text # tEmpty
             THEN <<(<<i, Soft_create_minhash(text)>>)>> \o DocMinhashes(docs, i + 1)
             ELSE DocMinhashes(docs, i + 1)

RECURSIVE SumLen(_, _)
SumLen(f, D) ==
    IF D = {} THEN 0
    ELSE LET c == CHOOSE x \in D : TRUE
         IN  Len(f[c]) + SumLen(f, D \ {c})

\* how many positions the cluster lists hold
TotalMembers == SumLen(clusters, DOMAIN clusters)

\* self.clusters[cluster_id].append(doc_idx), clusters a defaultdict(list)
AppendMember(cl, cluster_id, doc_idx) ==
    IF cluster_id \in DOMAIN cl
    THEN [cl EXCEPT ![cluster_id] = Append(@, doc_idx)]
    ELSE (cluster_id :> <<doc_idx>>) @@ cl

\* self.doc_to_cluster[doc_idx] = cluster_id
SetClusterSkipped(d2c, doc_idx, cluster_id) == d2c

SetCluster(d2c, doc_idx, cluster_id) == (doc_idx :> cluster_id) @@ d2c

\* cluster_id = f"cluster_{cluster_counter}"
ClusterId(counter) == counter

SoftDeduplicate ==
    /\ method = "soft"
    /\ pc \in {"idle", "returned"}
    /\ TotalMembers + Len(DocMinhashes(documents, 0)) <= MaxMembers
    /\ weighted_docs' = <<>>
    /\ IF LSHRejects(self_similarity_threshold, self_num_perm)
       THEN \* the ValueError of MinHashLSH(...) leaves deduplicate
            /\ pc' = "rejected"
            /\ UNCHANGED <<lsh, cluster_counter, idx, doc_minhashes>>
       ELSE /\ lsh' = EmptyLSH
            /\ cluster_counter' = 0
            /\ idx' = 0
            /\ doc_minhashes' = DocMinhashes(documents, 0)
            /\ pc' = "cluster"
    /\ phase' = "used"
    /\ UNCHANGED <<buildVars, pipelineVars, earlier>>
    /\ UNCHANGED <<method, documents, unique_docs, duplicates, exactVars,
                   reweight_factor, clusters, doc_to_cluster>>

\* a loop body with the policy of Fuzzy dedup: only a document that seeds a
\* cluster enters the index
SoftClusterStepIndexesSeedsOnly ==
    /\ method = "soft"
    /\ pc = "cluster"
    /\ idx < Len(doc_minhashes)
    /\ LET doc_idx == doc_minhashes[idx + 1][1]
           minhash == doc_minhashes[idx + 1][2]
           similar == Query(lsh, minhash)
       IN  /\ IF similar # {}
              THEN \* similar[0]: the query returns the candidates in no set order
                   \E similar_doc_id \in similar :
                      /\ IF similar_doc_id \in DOMAIN doc_to_cluster
                         THEN LET cluster_id == doc_to_cluster[similar_doc_id]
                              IN  /\ clusters' = AppendMember(clusters, cluster_id, doc_idx)
                                  /\ doc_to_cluster' =
                                         SetCluster(doc_to_cluster, doc_idx, cluster_id)
                         ELSE UNCHANGED <<clusters, doc_to_cluster>>
                      /\ UNCHANGED cluster_counter
              ELSE LET cluster_id == ClusterId(cluster_counter)
                   IN  /\ cluster_counter' = cluster_counter + 1
                       /\ clusters' = AppendMember(clusters, cluster_id, doc_idx)
                       /\ doc_to_cluster' =
                              SetCluster(doc_to_cluster, doc_idx, cluster_id)
           /\ lsh' = IF similar # {} THEN lsh ELSE Insert(lsh, doc_idx, minhash)
    /\ idx' = idx + 1
    /\ UNCHANGED <<buildVars, pipelineVars, phase, earlier>>
    /\ UNCHANGED <<method, documents, pc, unique_docs, duplicates, exactVars,
                   doc_minhashes, reweight_factor, weighted_docs>>

SoftClusterStep ==
    /\ method = "soft"
    /\ pc = "cluster"
    /\ idx < Len(doc_minhashes)
    /\ LET doc_idx == doc_minhashes[idx + 1][1]
           minhash == doc_minhashes[idx + 1][2]
           similar == Query(lsh, minhash)
       IN  /\ IF similar # {}
              THEN \* similar[0]: the query returns the candidates in no set order
                   \E similar_doc_id \in similar :
                      /\ IF similar_doc_id \in DOMAIN doc_to_cluster
                         THEN LET cluster_id == doc_to_cluster[similar_doc_id]
                              IN  /\ clusters' = AppendMember(clusters, cluster_id, doc_idx)
                                  /\ doc_to_cluster' =
                                         SetCluster(doc_to_cluster, doc_idx, cluster_id)
                         ELSE UNCHANGED <<clusters, doc_to_cluster>>
                      /\ UNCHANGED cluster_counter
              ELSE LET cluster_id == ClusterId(cluster_counter)
                   IN  /\ cluster_counter' = cluster_counter + 1
                       /\ clusters' = AppendMember(clusters, cluster_id, doc_idx)
                       /\ doc_to_cluster' =
                              SetCluster(doc_to_cluster, doc_idx, cluster_id)
           /\ lsh' = Insert(lsh, doc_idx, minhash)
    /\ idx' = idx + 1
    /\ UNCHANGED <<buildVars, pipelineVars, phase, earlier>>
    /\ UNCHANGED <<method, documents, pc, unique_docs, duplicates, exactVars,
                   doc_minhashes, reweight_factor, weighted_docs>>

\* max(self.reweight_factor, 1.0 / cluster_size)
ClusterWeightSmaller(rf, cluster_size) ==
    IF Leq(<<1, cluster_size>>, rf) THEN <<1, cluster_size>> ELSE rf

ClusterWeight(rf, cluster_size) ==
    IF Leq(<<1, cluster_size>>, rf) THEN rf ELSE <<1, cluster_size>>

\* pass 3: the weight of the document at 0-based position i
WeightOf(i) ==
    IF i \notin DOMAIN doc_to_cluster
    THEN One
    ELSE ClusterWeight(reweight_factor, Len(clusters[doc_to_cluster[i]]))

\* doc_with_weight = doc.copy(); doc_with_weight["weight"] = weight
WithWeight(doc, weight) == ("weight" :> weight) @@ doc

\* the caller's record after the weight was written: untouched, the write
\* went to the copy
InputAfterWriteInPlace(doc, weight) == ("weight" :> weight) @@ doc

InputAfter(doc, weight) == doc

SoftReturn ==
    /\ method = "soft"
    /\ pc = "cluster"
    /\ idx = Len(doc_minhashes)
    /\ weighted_docs' =
          [n \in DOMAIN documents |-> WithWeight(documents[n], WeightOf(n - 1))]
    /\ documents' =
          [n \in DOMAIN documents |-> InputAfter(documents[n], WeightOf(n - 1))]
    /\ pc' = "returned"
    \* the locals of the call are gone
    /\ idx' = 0
    /\ lsh' = EmptyLSH
    /\ cluster_counter' = 0
    /\ doc_minhashes' = <<>>
    /\ UNCHANGED <<buildVars, pipelineVars, phase, earlier>>
    /\ UNCHANGED <<method, unique_docs, duplicates, exactVars,
                   reweight_factor, clusters, doc_to_cluster>>

\* a reset that clears self.clusters and leaves self.doc_to_cluster
SoftResetKeepsMap ==
    /\ method = "soft"
    /\ pc \in {"idle", "returned"}
    /\ clusters' = <<>>
    /\ pc' = "idle"
    /\ weighted_docs' = <<>>
    /\ phase' = AfterReset(phase)
    /\ UNCHANGED <<buildVars, pipelineVars, earlier>>
    /\ UNCHANGED <<method, documents, unique_docs, duplicates, exactVars, fuzzyVars,
                   reweight_factor, doc_to_cluster, cluster_counter>>

SoftReset ==
    /\ method = "soft"
    /\ pc \in {"idle", "returned"}
    /\ clusters' = <<>>
    /\ doc_to_cluster' = <<>>
    /\ pc' = "idle"
    /\ weighted_docs' = <<>>
    /\ phase' = AfterReset(phase)
    /\ UNCHANGED <<buildVars, pipelineVars, earlier>>
    /\ UNCHANGED <<method, documents, unique_docs, duplicates, exactVars, fuzzyVars,
                   reweight_factor, cluster_counter>>

Caller == NewBatch \/ AppendDoc

Exact == ExactDeduplicate \/ ExactReset

Fuzzy == FuzzyDeduplicate \/ FuzzyStep \/ FuzzyReturn \/ FuzzyReset

Soft == SoftDeduplicate \/ SoftClusterStep \/ SoftReturn \/ SoftReset

\* the caller constructed an ExactDeduplicator
InitExact == InitWith({"exact"})

NextExact ==
    \/ NewBatch
    \/ AppendDoc
    \/ ExactDeduplicate
    \/ ExactReset

SpecExact == InitExact /\ [][NextExact]_vars

\* the caller constructed a FuzzyDeduplicator
InitFuzzy == InitWith({"fuzzy"})

NextFuzzy ==
    \/ NewBatch
    \/ AppendDoc
    \/ FuzzyDeduplicate
    \/ FuzzyStep
    \/ FuzzyReturn
    \/ FuzzyReset

SpecFuzzy == InitFuzzy /\ [][NextFuzzy]_vars

\* the caller constructed a SoftDeduplicator
InitSoft == InitWith({"soft"})

NextSoft ==
    \/ NewBatch
    \/ AppendDoc
    \/ SoftDeduplicate
    \/ SoftClusterStep
    \/ SoftReturn
    \/ SoftReset

SpecSoft == InitSoft /\ [][NextSoft]_vars

\* the caller constructed one of the two deduplicators that omit documents
InitOmitting == InitWith({"exact", "fuzzy"})

NextOmitting ==
    \/ NewBatch
    \/ AppendDoc
    \/ ExactDeduplicate
    \/ ExactReset
    \/ FuzzyDeduplicate
    \/ FuzzyStep
    \/ FuzzyReturn
    \/ FuzzyReset

SpecOmitting == InitOmitting /\ [][NextOmitting]_vars

\* the caller constructed any of the three
Init == InitWith({"exact", "fuzzy", "soft"})

Next == Caller \/ Exact \/ Fuzzy \/ Soft

Spec == Init /\ [][Next]_vars

(***************************************************************************)
(* A caller of Soft dedup who feeds one instance list after list without   *)
(* reset, and notes of each returned call which signature went to which    *)
(* cluster.                                                                *)
(***************************************************************************)
NoteBatch ==
    /\ method = "soft"
    /\ pc = "returned"
    /\ earlier' = earlier \cup
          {<<Soft_create_minhash(GetText(documents[n])), doc_to_cluster[n - 1]>> :
              n \in {k \in DOMAIN documents : /\ GetText(documents[k]) # tEmpty
                                              /\ (k - 1) \in DOMAIN doc_to_cluster}}
    /\ documents' = <<>>
    /\ pc' = "idle"
    /\ unique_docs' = <<>>
    /\ duplicates' = 0
    /\ weighted_docs' = <<>>
    /\ UNCHANGED <<buildVars, pipelineVars, phase>>
    /\ UNCHANGED <<method, exactVars, fuzzyVars, reweight_factor, clusters,
                   doc_to_cluster, cluster_counter>>

NextSoftCalls ==
    \/ NoteBatch
    \/ AppendDoc
    \/ SoftDeduplicate
    \/ SoftClusterStep
    \/ SoftReturn

SpecSoftCalls == InitSoft /\ [][NextSoftCalls]_vars

(***************************************************************************)
(* Construction.  The specifications above start when the deduplicator     *)
(* exists; the ones below start before (pc = "new": the caller is about to *)
(* construct one; pc = "idle", method = "none": the caller has none and    *)
(* uses deduplicate_documents).                                            *)
(***************************************************************************)
Methods == {"exact", "fuzzy", "soft"}

\* the names a caller passes to deduplicate_documents
MethodNames == Methods \cup {"minhash"}

\* the configs a caller passes: a threshold under either key, in and out of
\* [0, 1], no permutations, another shingle length
Configs ==
    {BaseConfig,
     ("threshold" :> <<1, 2>>) @@ BaseConfig,
     ("threshold" :> <<3, 2>>) @@ BaseConfig,
     ("similarity_threshold" :> <<3, 2>>) @@ BaseConfig,
     "num_perm" :> 0,
     ("ngram_size" :> 3) @@ BaseConfig}

InitBuild(pcs, configs, flags) ==
    /\ method = "none"
    /\ documents = <<>>
    /\ pc \in pcs
    /\ unique_docs = <<>>
    /\ duplicates = 0
    /\ seen_hashes = {}
    /\ idx = 0
    /\ lsh = EmptyLSH
    /\ doc_minhashes = <<>>
    /\ reweight_factor = Half
    /\ clusters = <<>>
    /\ doc_to_cluster = <<>>
    /\ cluster_counter = 0
    /\ weighted_docs = <<>>
    /\ config \in configs
    /\ DATASKETCH_AVAILABLE \in flags
    /\ deduplicators = {}
    /\ deduplication_mode = "soft"
    /\ phase = "new"
    /\ earlier = {}
    /\ transforms = <<>>
    /\ _fitted = FALSE
    /\ metadata = <<>>
    /\ result = <<>>
    /\ applied = <<>>

\* __init__ of the deduplicator m: "ok", or where its exception leaves the
\* caller.  Exact needs no backend; Fuzzy and Soft raise ImportError without
\* it; Fuzzy builds its MinHashLSH here, Soft builds none
ConstructOutcomeUnchecked(m, available) ==
    IF m = "fuzzy" /\ LSHRejects(self_threshold, self_num_perm)
    THEN "rejected"
    ELSE "ok"

ConstructOutcome(m, available) ==
    IF m = "exact" THEN "ok"
    ELSE IF ~available THEN "unavailable"
    ELSE IF m = "fuzzy" /\ LSHRejects(self_threshold, self_num_perm)
    THEN "rejected"
    ELSE "ok"

\* self.reweight_factor = self.config.get("reweight_factor", 0.5)
ConfiguredFactor == Get(config, "reweight_factor", Half)

\* the caller constructs the deduplicator m with config
ConstructOf(m) ==
    /\ pc = "new"
    /\ IF ConstructOutcome(m, DATASKETCH_AVAILABLE) = "ok"
       THEN /\ method' = m
            /\ pc' = "idle"
            /\ reweight_factor' = IF m = "soft" THEN ConfiguredFactor
                                  ELSE reweight_factor
       ELSE /\ pc' = ConstructOutcome(m, DATASKETCH_AVAILABLE)
            /\ UNCHANGED <<method, reweight_factor>>
    /\ seen_hashes' = {}
    /\ lsh' = EmptyLSH
    /\ doc_minhashes' = <<>>
    /\ clusters' = <<>>
    /\ doc_to_cluster' = <<>>
    /\ UNCHANGED <<documents, unique_docs, duplicates, idx, cluster_counter,
                   weighted_docs, buildVars, pipelineVars, phase, earlier>>

Construct == \E m \in Methods : ConstructOf(m)

(***************************************************************************)
(* deduplicate_documents(documents, method, config): constructs the        *)
(* deduplicator of that name and calls its deduplicate.  The Exact call is *)
(* one step, on a deduplicator that is gone when the step is over; the     *)
(* Fuzzy and the Soft call go on with FuzzyStep and SoftClusterStep, and   *)
(* when they return the deduplicator is gone as well.                      *)
(***************************************************************************)
\* the if / elif chain: the deduplicator a name selects
SelectedOrDefault(name) == IF name \in Methods THEN name ELSE "soft"

Selected(name) == IF name \in Methods THEN name ELSE "unknown"

Dispatch(name) ==
    /\ pc = "idle"
    /\ LET m == Selected(name)
           outcome == IF m = "unknown" THEN "unknown"
                      ELSE ConstructOutcome(m, DATASKETCH_AVAILABLE)
       IN  IF outcome # "ok"
           THEN /\ pc' = outcome
                /\ UNCHANGED <<method, unique_docs, duplicates, exactVars, fuzzyVars,
                               softVars>>
           ELSE CASE m = "exact" ->
                     LET r == ExactLoop(documents, {}, <<>>, 0)
                     IN  /\ unique_docs' = r.unique_docs
                         /\ duplicates' = r.duplicates
                         /\ pc' = "returned"
                         /\ UNCHANGED <<method, exactVars, fuzzyVars, softVars>>
                  [] m = "fuzzy" ->
                     /\ method' = "fuzzy"
                     /\ lsh' = EmptyLSH
                     /\ doc_minhashes' = <<>>
                     /\ unique_docs' = <<>>
                     /\ duplicates' = 0
                     /\ idx' = 0
                     /\ pc' = "loop"
                     /\ UNCHANGED <<exactVars, softVars>>
                  [] m = "soft" ->
                     /\ method' = "soft"
                     /\ reweight_factor' = ConfiguredFactor
                     /\ clusters' = <<>>
                     /\ doc_to_cluster' = <<>>
                     /\ weighted_docs' = <<>>
                     /\ IF LSHRejects(self_similarity_threshold, self_num_perm)
                        THEN /\ pc' = "rejected"
                             /\ UNCHANGED <<lsh, cluster_counter, idx, doc_minhashes>>
                        ELSE /\ lsh' = EmptyLSH
                             /\ cluster_counter' = 0
                             /\ idx' = 0
                             /\ doc_minhashes' = DocMinhashes(documents, 0)
                             /\ pc' = "cluster"
                     /\ UNCHANGED <<unique_docs, duplicates, exactVars>>
    /\ UNCHANGED <<documents, buildVars, pipelineVars, phase, earlier>>

DeduplicateDocuments == \E name \in MethodNames : Dispatch(name)

\* return deduplicator.deduplicate(documents), the deduplicator a Fuzzy one
DispatchFuzzyReturn ==
    /\ method = "fuzzy"
    /\ pc = "loop"
    /\ idx = Len(documents)
    /\ pc' = "returned"
    /\ method' = "none"
    /\ idx' = 0
    /\ lsh' = EmptyLSH
    /\ doc_minhashes' = <<>>
    /\ UNCHANGED <<documents, unique_docs, duplicates, exactVars, softVars,
                   buildVars, pipelineVars, phase, earlier>>

\* return deduplicator.deduplicate(documents), the deduplicator a Soft one
DispatchSoftReturn ==
    /\ method = "soft"
    /\ pc = "cluster"
    /\ idx = Len(doc_minhashes)
    /\ weighted_docs' =
          [n \in DOMAIN documents |-> WithWeight(documents[n], WeightOf(n - 1))]
    /\ documents' =
          [n \in DOMAIN documents |-> InputAfter(documents[n], WeightOf(n - 1))]
    /\ pc' = "returned"
    /\ method' = "none"
    /\ idx' = 0
    /\ lsh' = EmptyLSH
    /\ cluster_counter' = 0
    /\ doc_minhashes' = <<>>
    /\ clusters' = <<>>
    /\ doc_to_cluster' = <<>>
    /\ UNCHANGED <<unique_docs, duplicates, exactVars, reweight_factor,
                   buildVars, pipelineVars, phase, earlier>>

\* a caller without a deduplicator of its own, the backend installed
InitDispatch == InitBuild({"idle"}, {BaseConfig}, {TRUE})

NextDispatch ==
    \/ NewBatch
    \/ AppendDoc
    \/ DeduplicateDocuments
    \/ FuzzyStep
    \/ DispatchFuzzyReturn
    \/ SoftClusterStep
    \/ DispatchSoftReturn

SpecDispatch == InitDispatch /\ [][NextDispatch]_vars

\* the backend is not installed; the caller constructs a deduplicator or
\* goes through deduplicate_documents
InitBackend == InitBuild({"new", "idle"}, {BaseConfig}, {FALSE})

NextBackend ==
    \/ NewBatch
    \/ AppendDoc
    \/ Construct
    \/ DeduplicateDocuments
    \/ ExactDeduplicate
    \/ ExactReset

SpecBackend == InitBackend /\ [][NextBackend]_vars

\* the backend is installed; the caller constructs a deduplicator with one
\* of the configs and feeds it list after list
InitConfig == InitBuild({"new"}, Configs, {TRUE})

NextConfig ==
    \/ NewBatch
    \/ AppendDoc
    \/ Construct
    \/ ExactDeduplicate
    \/ FuzzyDeduplicate
    \/ FuzzyStep
    \/ FuzzyReturn
    \/ SoftDeduplicate
    \/ SoftClusterStep
    \/ SoftReturn

SpecConfig == InitConfig /\ [][NextConfig]_vars

(***************************************************************************)
(* TextPipeline (src/src/dataprep/pipeline.py): its constructor builds the *)
(* deduplicators of the given deduplication name, its deduplicate hands    *)
(* the list to the one of that name.                                       *)
(***************************************************************************)
\* the deduplication names a caller constructs a TextPipeline with
PipelineModes == Methods \cup {"simhash"}

\* self.deduplicators after the three ifs of __init__
DeduplicatorsOf(deduplication) ==
    (IF deduplication \in {"exact", "soft"} THEN {"exact"} ELSE {})
      \cup (IF deduplication \in {"fuzzy", "soft"} THEN {"fuzzy"} ELSE {})
      \cup (IF deduplication = "soft" THEN {"soft"} ELSE {})

\* the first constructor of the three ifs that raises, if one does
FirstFailure(names) ==
    IF "fuzzy" \in names /\ ConstructOutcome("fuzzy", DATASKETCH_AVAILABLE) # "ok"
    THEN ConstructOutcome("fuzzy", DATASKETCH_AVAILABLE)
    ELSE IF "soft" \in names
    THEN ConstructOutcome("soft", DATASKETCH_AVAILABLE)
    ELSE "ok"

TextPipelineInit ==
    /\ pc = "new"
    /\ \E deduplication \in PipelineModes :
         IF FirstFailure(DeduplicatorsOf(deduplication)) = "ok"
         THEN /\ deduplication_mode' = deduplication
              /\ deduplicators' = DeduplicatorsOf(deduplication)
              \* the deduplicator deduplicate will use, if there is one
              /\ method' = IF deduplication \in deduplicators' THEN deduplication
                           ELSE "none"
              /\ reweight_factor' = IF deduplication = "soft" THEN ConfiguredFactor
                                    ELSE reweight_factor
              /\ pc' = "idle"
         ELSE /\ pc' = FirstFailure(DeduplicatorsOf(deduplication))
              /\ UNCHANGED <<deduplication_mode, deduplicators, method, reweight_factor>>
    /\ UNCHANGED <<documents, unique_docs, duplicates, exactVars, fuzzyVars, clusters,
                   doc_to_cluster, cluster_counter, weighted_docs, config,
                   DATASKETCH_AVAILABLE, pipelineVars, phase, earlier>>

\* `return documents`: the caller gets its own list back
ReturnDocuments ==
    /\ pc \in {"idle", "returned"}
    /\ unique_docs' = documents
    /\ pc' = "returned"
    /\ UNCHANGED <<method, documents, duplicates, exactVars, fuzzyVars, softVars,
                   buildVars, pipelineVars, phase, earlier>>

TextPipelineDeduplicate ==
    IF deduplicators = {}
    THEN ReturnDocuments
    ELSE CASE deduplication_mode = "exact" -> ExactDeduplicate
           [] deduplication_mode = "fuzzy" -> FuzzyDeduplicate
           [] deduplication_mode = "soft" -> SoftDeduplicate
           [] OTHER -> ReturnDocuments

InitTextPipeline == InitBuild({"new"}, {BaseConfig}, {TRUE})

NextTextPipeline ==
    \/ NewBatch
    \/ AppendDoc
    \/ TextPipelineInit
    \/ TextPipelineDeduplicate
    \/ FuzzyStep
    \/ FuzzyReturn
    \/ SoftClusterStep
    \/ SoftReturn

SpecTextPipeline == InitTextPipeline /\ [][NextTextPipeline]_vars

(***************************************************************************)
(* Pipeline (src/dataprep/core/pipeline.py).  A DataFrame is the set of    *)
(* its columns; a transform is a record of its class, its _fitted flag     *)
(* and, for a Normalizer, the columns it was fitted to.  The caller's pc   *)
(* says how its last call on the pipeline ended: "returned", "raised" (an  *)
(* exception of a transform or of execute), "not_fitted" (the RuntimeError *)
(* of transform).                                                          *)
(***************************************************************************)
\* longest list of transforms the caller builds
MaxTransforms == 2

Frames == {{"a", "b"}, {"a"}}

\* FeatureSelector(features = ["b"])
Features == {"b"}

TransformTypes == {"Normalizer", "DropMissing", "FeatureSelector"}

\* Transform.__init__
NewTransform(type) == [type |-> type, _fitted |-> FALSE, columns |-> {}]

\* transform.fit(data) raises: FeatureSelector misses a feature
FitRaises(t, data) == t.type = "FeatureSelector" /\ ~(Features \subseteq data)

\* transform.fit(data)
FitOne(t, data) ==
    [t EXCEPT !._fitted = TRUE,
              !.columns = IF t.type = "Normalizer" THEN data ELSE @]

\* transform.transform(data) raises: a fitted Normalizer misses a column
ApplyRaises(t, data) ==
    t.type = "Normalizer" /\ t.columns # {} /\ ~(t.columns \subseteq data)

\* transform.transform(data)
ApplyOne(t, data) ==
    IF t.type = "FeatureSelector" THEN data \cap Features ELSE data

\* the loop of Pipeline.fit from transform i on: the transforms as the loop
\* leaves them, and whether it ran to its end
RECURSIVE FitLoop(_, _, _)
FitLoop(ts, i, current_data) ==
    IF i > Len(ts) THEN [transforms |-> ts, completed |-> TRUE]
    ELSE IF FitRaises(ts[i], current_data)
    THEN [transforms |-> ts, completed |-> FALSE]
    ELSE LET fitted == [ts EXCEPT ![i] = FitOne(@, current_data)]
         IN  IF ApplyRaises(fitted[i], current_data)
             THEN [transforms |-> fitted, completed |-> FALSE]
             ELSE FitLoop(fitted, i + 1, ApplyOne(fitted[i], current_data))

\* the loop of Pipeline.transform from transform i on: whether it ran to its
\* end, the positions whose transform it applied, in the order of the calls,
\* and the frame it holds
RECURSIVE TransformLoop(_, _, _, _)
TransformLoop(ts, i, current_data, done) ==
    IF i > Len(ts)
    THEN [completed |-> TRUE, applied |-> done, data |-> current_data]
    ELSE IF ApplyRaises(ts[i], current_data)
    THEN [completed |-> FALSE, applied |-> done, data |-> current_data]
    ELSE TransformLoop(ts, i + 1, ApplyOne(ts[i], current_data), Append(done, i))

\* `if not self._fitted and self.transforms: raise RuntimeError`
MustBeFitted(fitted, ts) == ~fitted /\ ts # <<>>

\* Pipeline.transform(data) on a pipeline with this flag and list: how it
\* ends, what it applied, what it returns
TransformCall(fitted, ts, data) ==
    IF MustBeFitted(fitted, ts)
    THEN [pc |-> "not_fitted", applied |-> <<>>, result |-> <<>>]
    ELSE LET r == TransformLoop(ts, 1, data, <<>>)
         IN  [pc |-> IF r.completed THEN "returned" ELSE "raised",
              applied |-> r.applied,
              result |-> IF r.completed THEN <<r.data>> ELSE <<>>]

\* how Pipeline.transform(data) ends
TransformEnds(fitted, ts, data) == TransformCall(fitted, ts, data).pc

dedupVars == <<method, documents, unique_docs, duplicates, exactVars, fuzzyVars,
               softVars, buildVars, phase, earlier>>

\* the call returned no frame and ran no transform loop
NoFrame == result' = <<>> /\ applied' = <<>>

\* add_transform that also marks the pipeline as not fitted
AddTransformUnfits ==
    /\ Len(transforms) < MaxTransforms
    /\ \E type \in TransformTypes :
         transforms' = Append(transforms, NewTransform(type))
    /\ _fitted' = FALSE
    /\ pc' = "returned"
    /\ NoFrame
    /\ UNCHANGED <<metadata, dedupVars>>

AddTransform ==
    /\ Len(transforms) < MaxTransforms
    /\ \E type \in TransformTypes :
         transforms' = Append(transforms, NewTransform(type))
    /\ pc' = "returned"
    /\ NoFrame
    /\ UNCHANGED <<_fitted, metadata, dedupVars>>

PipelineFit ==
    /\ \E data \in Frames :
         LET r == FitLoop(transforms, 1, data)
         IN  /\ transforms' = r.transforms
             /\ _fitted' = IF r.completed THEN TRUE ELSE _fitted
             /\ pc' = IF r.completed THEN "returned" ELSE "raised"
    /\ NoFrame
    /\ UNCHANGED <<metadata, dedupVars>>

\* transform(data)
TransformOf(data) ==
    LET c == TransformCall(_fitted, transforms, data)
    IN  /\ pc' = c.pc
        /\ applied' = c.applied
        /\ result' = c.result
        /\ UNCHANGED <<transforms, _fitted>>

PipelineTransform ==
    /\ \E data \in Frames : TransformOf(data)
    /\ UNCHANGED <<metadata, dedupVars>>

\* return self.fit(data).transform(data)
FitTransform(data) ==
    LET r == FitLoop(transforms, 1, data)
        c == TransformCall(TRUE, r.transforms, data)
    IN  /\ transforms' = r.transforms
        /\ _fitted' = IF r.completed THEN TRUE ELSE _fitted
        /\ pc' = IF r.completed THEN c.pc ELSE "raised"
        /\ applied' = IF r.completed THEN c.applied ELSE <<>>
        /\ result' = IF r.completed THEN c.result ELSE <<>>

PipelineFitTransform ==
    /\ \E data \in Frames : FitTransform(data)
    /\ UNCHANGED <<metadata, dedupVars>>

\* run(source, sink, fit): data is what source.read() returns, the frame
\* goes to sink.write
RunOf(fit) ==
    /\ \E data \in Frames :
         IF fit THEN FitTransform(data) ELSE TransformOf(data)
    /\ UNCHANGED <<metadata, dedupVars>>

PipelineRun == \E fit \in BOOLEAN : RunOf(fit)

\* execute(source, sink): without a source it raises ValueError
PipelineExecute ==
    /\ \E source \in Frames \cup {{}} :
         IF source # {}
         THEN FitTransform(source)
         ELSE /\ pc' = "raised"
              /\ NoFrame
              /\ UNCHANGED <<transforms, _fitted>>
    /\ UNCHANGED <<metadata, dedupVars>>

GetMetadata ==
    /\ metadata' = [num_transforms |-> Len(transforms),
                    fitted |-> _fitted,
                    transforms |-> [i \in DOMAIN transforms |-> transforms[i].type]]
    /\ pc' = "returned"
    /\ NoFrame
    /\ UNCHANGED <<transforms, _fitted, dedupVars>>

\* Pipeline(): no transforms, not fitted
InitPipeline == InitBuild({"new"}, {BaseConfig}, {TRUE})

NextPipeline ==
    \/ AddTransform
    \/ PipelineFit
    \/ PipelineTransform
    \/ PipelineFitTransform
    \/ PipelineRun
    \/ PipelineExecute
    \/ GetMetadata

SpecPipeline == InitPipeline /\ [][NextPipeline]_vars

(***************************************************************************)
(* A caller of Fuzzy dedup who passes every list to an instance that is    *)
(* new or was reset since its last call.                                   *)
(***************************************************************************)
FuzzyDeduplicateFresh == phase # "used" /\ FuzzyDeduplicate

NextFuzzyFresh ==
    \/ NewBatch
    \/ AppendDoc
    \/ FuzzyDeduplicateFresh
    \/ FuzzyStep
    \/ FuzzyReturn
    \/ FuzzyReset

SpecFuzzyFresh == InitFuzzy /\ [][NextFuzzyFresh]_vars

(***************************************************************************)
(* A caller of Soft dedup whose documents form a chain: dA and dB are LSH  *)
(* candidates of each other, dB and dC as well, dA and dC are not.         *)
(***************************************************************************)
ChainPool == {dA, dB, dC}

AppendChainDoc ==
    /\ pc = "idle"
    /\ Len(documents) < MaxLen
    /\ \E d \in ChainPool : documents' = Append(documents, d)
    /\ UNCHANGED <<buildVars, pipelineVars, phase, earlier>>
    /\ UNCHANGED <<method, pc, unique_docs, duplicates, exactVars, fuzzyVars, softVars>>

NextSoftChain ==
    \/ NewBatch
    \/ AppendChainDoc
    \/ SoftDeduplicate
    \/ SoftClusterStep
    \/ SoftReturn
    \/ SoftReset

SpecSoftChain == InitSoft /\ [][NextSoftChain]_vars

(***************************************************************************)
(* A caller of Soft dedup who passes every list of chain documents to an   *)
(* instance that is new or was reset since its last call.                  *)
(***************************************************************************)
SoftDeduplicateFresh == phase # "used" /\ SoftDeduplicate

NextSoftFresh ==
    \/ NewBatch
    \/ AppendChainDoc
    \/ SoftDeduplicateFresh
    \/ SoftClusterStep
    \/ SoftReturn
    \/ SoftReset

SpecSoftFresh == InitSoft /\ [][NextSoftFresh]_vars

(***************************************************************************)
(* A caller who configures the shingle length: the default of 5, or 7,     *)
(* which is longer than the six characters of tA, tB, tC and tD.           *)
(***************************************************************************)
ShingleConfigs == {BaseConfig, ("ngram_size" :> 7) @@ BaseConfig}

InitShingle == InitBuild({"new"}, ShingleConfigs, {TRUE})

SpecShingle == InitShingle /\ [][NextConfig]_vars

(***************************************************************************)
(* A caller of Soft dedup who keeps the input and the output of one run on *)
(* a fresh instance and goes on running lists on fresh instances.          *)
(***************************************************************************)
NoteRun ==
    /\ method = "soft"
    /\ pc = "returned"
    /\ earlier = {}
    /\ earlier' = {<<documents, weighted_docs>>}
    /\ UNCHANGED <<buildVars, pipelineVars, phase>>
    /\ UNCHANGED <<method, documents, pc, unique_docs, duplicates, exactVars,
                   fuzzyVars, softVars>>

NextSoftRuns ==
    \/ NoteRun
    \/ NewBatch
    \/ AppendChainDoc
    \/ SoftDeduplicateFresh
    \/ SoftClusterStep
    \/ SoftReturn
    \/ SoftReset

SpecSoftRuns == InitSoft /\ [][NextSoftRuns]_vars

(***************************************************************************)
(* Vocabulary of the properties.                                           *)
(***************************************************************************)
\* positions of the documents that carry a non-empty text
NonEmptyAt(docs) == {i \in DOMAIN docs : GetText(docs[i]) # tEmpty}

HashAt(docs, i) == _hash_text(GetText(docs[i]))

\* the elements of docs at the positions I, in increasing position
Pick(docs, I) ==
    [k \in 1..Cardinality(I) |->
        docs[CHOOSE i \in I : Cardinality({j \in I : j <= i}) = k]]

\* out is docs with some elements left out
IsSubsequence(out, docs) ==
    \E I \in SUBSET DOMAIN docs : out = Pick(docs, I)

\* a step that is a call of ExactDeduplicator.deduplicate which returns
ExactCall == method = "exact" /\ pc' = "returned"

\* positions whose hash no earlier kept document produced: not in the seen set
\* of the prior calls, and the first of its hash in this call
FirstOccurrences(docs, seen) ==
    {i \in NonEmptyAt(docs) :
        /\ HashAt(docs, i) \notin seen
        /\ \A j \in NonEmptyAt(docs) : j < i => HashAt(docs, j) # HashAt(docs, i)}

(***************************************************************************)
(* C1: a call of ExactDeduplicator.deduplicate returns exactly the         *)
(* non-empty-text documents of its input whose hash no document kept       *)
(* earlier (in this call or in a prior call since construction or reset)   *)
(* produced, in input order.                                               *)
(***************************************************************************)
C1_ExactReturnsFirstOccurrences ==
    [][ExactCall =>
        unique_docs' = Pick(documents, FirstOccurrences(documents, seen_hashes))]_vars

C1_Witness ==
    /\ method = "exact" /\ pc = "returned"
    /\ documents = <<dA, dB, dB>>
    /\ unique_docs = <<dB>>
    /\ duplicates = 2

(***************************************************************************)
(* C2: passing the same list a second time to the same ExactDeduplicator,  *)
(* without reset in between, returns the empty list: a call leaves the     *)
(* hash of every non-empty document of its input in the seen set, and a    *)
(* call that follows a returned call on the same list keeps nothing.       *)
(***************************************************************************)
C2_ExactSecondPassEmpty ==
    [][ExactCall =>
        /\ \A i \in NonEmptyAt(documents) : HashAt(documents, i) \in seen_hashes'
        /\ pc = "returned" => unique_docs' = <<>>]_vars

C2_Witness ==
    /\ method = "exact" /\ pc = "returned"
    /\ documents = <<dA, dB, dA2>>
    /\ unique_docs = <<>>
    /\ duplicates = 3

(***************************************************************************)
(* C3: the seen-hash set only grows under deduplicate (and every other     *)
(* step but reset); reset leaves it empty.                                 *)
(***************************************************************************)
C3_SeenHashesMonotonic ==
    [][IF ExactReset THEN seen_hashes' = {}
       ELSE seen_hashes \subseteq seen_hashes']_vars

C3_Witness ==
    /\ method = "exact" /\ pc = "returned"
    /\ Cardinality(seen_hashes) = 3
    /\ Len(unique_docs) = 1
    /\ duplicates = 1

(***************************************************************************)
(* C4: a document with empty text or without a text field is skipped by    *)
(* Exact dedup: it is not in the output, it is not counted as a duplicate, *)
(* and it adds nothing to the seen-hash set.                               *)
(***************************************************************************)
C4_ExactSkipsEmptyText ==
    [][ExactCall =>
        /\ \A k \in DOMAIN unique_docs' : GetText(unique_docs'[k]) # tEmpty
        /\ Len(unique_docs') + duplicates' = Cardinality(NonEmptyAt(documents))
        /\ seen_hashes' \subseteq
              seen_hashes \cup {HashAt(documents, i) : i \in NonEmptyAt(documents)}]_vars

C4_Witness ==
    /\ method = "exact" /\ pc = "returned"
    /\ documents = <<dEmpty, dA, dNoText>>
    /\ unique_docs = <<dA>>
    /\ duplicates = 0
(***************************************************************************)
(* The document a FuzzyStep processes, and what the step does with it.     *)
(***************************************************************************)
CurDoc == documents[idx + 1]

CurMinhash == _create_minhash(GetText(CurDoc))

\* the LSH query at the moment the document is processed
CurSimilar == Query(lsh, CurMinhash)

\* a FuzzyStep on a document with non-empty text
FuzzyProcess == FuzzyStep /\ GetText(CurDoc) # tEmpty

\* the step counted the document as a duplicate and left it out
Dropped == pc' = "loop" /\ duplicates' = duplicates + 1 /\ unique_docs' = unique_docs

\* the step put the document in the output
Kept == pc' = "loop" /\ unique_docs' = Append(unique_docs, CurDoc)

(***************************************************************************)
(* C5: Fuzzy dedup takes the documents in arrival order; a non-empty       *)
(* document is dropped if and only if the LSH query at that moment returns *)
(* candidates; a dropped document is not inserted into the index; a kept   *)
(* document is in the index when the next document is processed, where a   *)
(* query with its signature finds it.                                      *)
(***************************************************************************)
C5_FuzzyPerDocumentRule ==
    [][/\ FuzzyStep => (pc' = "loop" => idx' = idx + 1)
       /\ FuzzyProcess =>
            /\ Dropped <=> CurSimilar # {}
            /\ Dropped => lsh' = lsh
            /\ Kept => /\ DocId(idx) \notin lsh.keys
                       /\ DocId(idx) \in Query(lsh', CurMinhash)
            /\ Kept \/ Dropped \/ pc' = "raised"]_vars

C5_Witness ==
    /\ method = "fuzzy" /\ pc = "loop" /\ idx = 3
    /\ documents = <<dA, dB, dC>>
    /\ unique_docs = <<dA, dC>>
    /\ duplicates = 1
    /\ lsh.keys = {DocId(0), DocId(2)}

(***************************************************************************)
(* C6: of two consecutive Fuzzy deduplicate calls without a reset between  *)
(* them, the second completes normally and drops every non-empty document  *)
(* that is an LSH candidate of a document the first call kept.             *)
(***************************************************************************)
C6_FuzzySecondCallCompletes ==
    [][FuzzyProcess =>
        /\ pc' # "raised"
        /\ CurSimilar # {} => Dropped]_vars

(***************************************************************************)
(* C7: what a call of Exact or Fuzzy dedup returns is its input with some  *)
(* documents left out: not longer, in the input's order, each survivor the *)
(* input record as it was.                                                 *)
(***************************************************************************)
C7_OutputIsSubsequence ==
    (pc = "returned" /\ method \in {"exact", "fuzzy"}) =>
        /\ Len(unique_docs) <= Len(documents)
        /\ IsSubsequence(unique_docs, documents)

C7_Witness ==
    /\ method = "fuzzy" /\ pc = "returned"
    /\ documents = <<dC, dB, dA>>
    /\ unique_docs = <<dC, dA>>
    /\ duplicates = 1
(***************************************************************************)
(* Soft dedup: the step on which deduplicate returns, and the steps of a   *)
(* running call.                                                           *)
(***************************************************************************)
SoftReturns == method = "soft" /\ pc' = "returned"

SoftRunning == method = "soft" /\ pc' \in {"cluster", "returned"}

\* the larger of two weights
MaxWeight(x, y) == IF Leq(y, x) THEN x ELSE y

(***************************************************************************)
(* C8: a Soft call returns as many records as it was given; the n-th is    *)
(* the n-th input record with the weight field added or overwritten and    *)
(* nothing else changed; the caller's records are as they were.            *)
(***************************************************************************)
C8_SoftConservesInput ==
    [][/\ SoftRunning => documents' = documents
       /\ SoftReturns =>
            /\ Len(weighted_docs') = Len(documents)
            /\ \A n \in DOMAIN documents :
                 /\ DOMAIN weighted_docs'[n] = DOMAIN documents[n] \cup {"weight"}
                 /\ \A f \in DOMAIN documents[n] \ {"weight"} :
                      weighted_docs'[n][f] = documents[n][f]]_vars

C8_Witness ==
    /\ method = "soft" /\ pc = "returned"
    /\ documents = <<dAw, dNoText, dB>>
    /\ weighted_docs[1] = [text |-> tA, weight |-> Half]
    /\ weighted_docs[2] = [id |-> 2, weight |-> One]
    /\ weighted_docs[3] = [text |-> tB, weight |-> Half]

(***************************************************************************)
(* C9: every document a Soft call returns has                              *)
(* reweight_factor <= weight <= 1, and weight 1 when its cluster has one   *)
(* member, whatever reweight_factor the constructor was given.             *)
(***************************************************************************)
C9_SoftWeightBounds ==
    (method = "soft" /\ pc = "returned") =>
        \A n \in DOMAIN weighted_docs :
            LET weight == weighted_docs[n]["weight"]
            IN  /\ Leq(reweight_factor, weight)
                /\ Leq(weight, One)
                /\ (/\ (n - 1) \in DOMAIN doc_to_cluster
                    /\ Len(clusters[doc_to_cluster[n - 1]]) = 1) => weight = One

(***************************************************************************)
(* C10: the weight of a clustered document is max(reweight_factor, 1/s),   *)
(* s the size of its cluster when the whole input has been scanned, and s  *)
(* is the number of documents of the input that landed in that cluster.    *)
(***************************************************************************)
C10_SoftWeightFromFinalClusterSize ==
    (method = "soft" /\ pc = "returned") =>
        \A n \in NonEmptyAt(documents) :
            /\ (n - 1) \in DOMAIN doc_to_cluster
            /\ LET landed == {m \in NonEmptyAt(documents) :
                                 /\ (m - 1) \in DOMAIN doc_to_cluster
                                 /\ doc_to_cluster[m - 1] = doc_to_cluster[n - 1]}
                   s == Cardinality(landed)
               IN  /\ Len(clusters[doc_to_cluster[n - 1]]) = s
                   /\ weighted_docs[n]["weight"] = MaxWeight(reweight_factor, <<1, s>>)

\* the records of a returned Soft call's input that the cluster maps hold
Clustered == {n \in DOMAIN weighted_docs : (n - 1) \in DOMAIN doc_to_cluster}

\* the size of the cluster the n-th record's weight was computed from
ClusterSizeOf(n) == Len(clusters[doc_to_cluster[n - 1]])

(***************************************************************************)
(* C11: under one reweight_factor the weight does not grow with the        *)
(* cluster size: of two returned documents the one in the larger cluster   *)
(* has the weight that is not larger, and a document whose cluster size s  *)
(* has 1/s <= reweight_factor has weight reweight_factor.                  *)
(***************************************************************************)
C11_SoftWeightMonotone ==
    (method = "soft" /\ pc = "returned") =>
        \A n \in Clustered :
            /\ \A m \in Clustered :
                 ClusterSizeOf(n) < ClusterSizeOf(m) =>
                     Leq(weighted_docs[m]["weight"], weighted_docs[n]["weight"])
            /\ Leq(<<1, ClusterSizeOf(n)>>, reweight_factor) =>
                 weighted_docs[n]["weight"] = reweight_factor

C11_Witness ==
    /\ method = "soft" /\ pc = "returned" /\ reweight_factor = Half
    /\ documents = <<dD, dAw, dB>>
    /\ ClusterSizeOf(1) = 1 /\ weighted_docs[1]["weight"] = One
    /\ ClusterSizeOf(2) = 2 /\ weighted_docs[2]["weight"] = Half
    /\ ClusterSizeOf(3) = 2 /\ weighted_docs[3]["weight"] = Half

(***************************************************************************)
(* C12: in what a Soft call returns, a document with empty text (or none)  *)
(* has weight 1 and the cluster maps hold nothing for it, in every call of *)
(* a sequence of calls on one instance.                                    *)
(***************************************************************************)
C12_SoftEmptyTextWeightOne ==
    (method = "soft" /\ pc = "returned") =>
        \A n \in DOMAIN documents :
            GetText(documents[n]) = tEmpty =>
                /\ weighted_docs[n]["weight"] = One
                /\ n \notin Clustered

(***************************************************************************)
(* The document a SoftClusterStep places, and the documents of earlier     *)
(* calls that are its LSH candidates: they share a bucket in some band.    *)
(***************************************************************************)
SoftCurIdx == doc_minhashes[idx + 1][1]

SoftCurMinhash == doc_minhashes[idx + 1][2]

Collide(m1, m2) == \E b \in 1..Bands : BandKey(m1, b) = BandKey(m2, b)

EarlierCandidates == {e \in earlier : Collide(e[1], SoftCurMinhash)}

(***************************************************************************)
(* C13: without a reset, a document of a later Soft call that is an LSH    *)
(* candidate of a document of an earlier call seeds no new cluster and is  *)
(* mapped to the cluster of such an earlier document.                      *)
(***************************************************************************)
C13_SoftJoinsEarlierCluster ==
    [][(SoftClusterStep /\ EarlierCandidates # {}) =>
        /\ cluster_counter' = cluster_counter
        /\ \E e \in EarlierCandidates : doc_to_cluster'[SoftCurIdx] = e[2]]_vars

(***************************************************************************)
(* The fields of the deduplicator, and their values in a newly constructed *)
(* one (InitWith).  deduplicate reads its argument, the configuration and  *)
(* these fields, nothing else.                                             *)
(***************************************************************************)
InstanceFields == <<seen_hashes, lsh, doc_minhashes, clusters, doc_to_cluster>>

NewInstanceFields == <<{}, EmptyLSH, <<>>, <<>>, <<>>>>

(***************************************************************************)
(* C14: after reset() that follows deduplicate calls, and until the next   *)
(* call, the deduplicator (Exact, Fuzzy or Soft) is in the state of a      *)
(* newly constructed one with the same configuration, so that the call     *)
(* deduplicate(D) that follows does what it does on a new instance.        *)
(***************************************************************************)
C14_ResetStartsFresh ==
    phase = "reset" =>
        /\ InstanceFields = NewInstanceFields
        /\ pc = "idle"

C14_Witness ==
    /\ phase = "reset"
    /\ method = "soft"
    /\ documents = <<dAw, dB>>
    /\ weighted_docs = <<>>
    /\ clusters = <<>>

(***************************************************************************)
(* C15: deduplicate_documents runs the deduplicator its name selects, on   *)
(* an instance in the state of a new one: 'exact' returns the first        *)
(* occurrences of the list alone, 'fuzzy' and 'soft' enter their loop with *)
(* an empty index and empty maps; any other name raises before a document  *)
(* is processed: nothing is constructed and nothing is returned.           *)
(***************************************************************************)
C15_DispatchSelectsByName ==
    [][\A name \in MethodNames :
          Dispatch(name) =>
             CASE name = "exact" ->
                    /\ pc' = "returned"
                    /\ unique_docs' = Pick(documents, FirstOccurrences(documents, {}))
                    /\ weighted_docs' = <<>>
               [] name = "fuzzy" ->
                    /\ method' = "fuzzy" /\ pc' = "loop" /\ idx' = 0
                    /\ lsh' = EmptyLSH /\ doc_minhashes' = <<>>
                    /\ unique_docs' = <<>> /\ duplicates' = 0
               [] name = "soft" ->
                    /\ method' = "soft" /\ pc' = "cluster" /\ idx' = 0
                    /\ lsh' = EmptyLSH /\ cluster_counter' = 0
                    /\ clusters' = <<>> /\ doc_to_cluster' = <<>>
               [] OTHER ->
                    /\ pc' = "unknown"
                    /\ method' = "none"
                    /\ unique_docs' = <<>> /\ weighted_docs' = <<>>
                    /\ InstanceFields' = NewInstanceFields
                    /\ documents' = documents]_vars

C15_Witness ==
    /\ pc = "unknown"
    /\ method = "none"
    /\ documents = <<dA, dS, dB>>
    /\ unique_docs = <<>>
    /\ weighted_docs = <<>>

(***************************************************************************)
(* C17: a Fuzzy or Soft constructor given num_perm <= 0 or a threshold     *)
(* outside [0, 1] raises, and the configuration error is raised nowhere    *)
(* but in a constructor.                                                   *)
(***************************************************************************)
OutsideUnit(t) == ~Leq(<<0, 1>>, t) \/ ~Leq(t, One)

\* the numeric parameters the deduplicator m reads from config are invalid
InvalidNumeric(m) ==
    \/ self_num_perm <= 0
    \/ m = "fuzzy" /\ OutsideUnit(self_threshold)
    \/ m = "soft" /\ OutsideUnit(self_similarity_threshold)

C17_InvalidConfigRejectedAtConstruction ==
    [][/\ \A m \in {"fuzzy", "soft"} :
            (ConstructOf(m) /\ InvalidNumeric(m)) => pc' = "rejected"
       /\ (pc' = "rejected" /\ pc # "rejected") => pc = "new"]_vars

C19_SoftConfigSurface ==
    [][SoftDeduplicate =>
        /\ self_similarity_threshold = Get(config, "threshold", SoftDefaultThreshold)
        /\ pc' = "cluster" =>
             \A k \in DOMAIN doc_minhashes' :
                 doc_minhashes'[k][2] =
                     MinHashOf(_get_ngrams(GetText(documents[doc_minhashes'[k][1] + 1]),
                                           Get(config, "ngram_size", ngram_size)))]_vars

(***************************************************************************)
(* C16: a TextPipeline constructed with a deduplication name other than    *)
(* exact, fuzzy and soft does not return from deduplicate: the name is     *)
(* refused by the constructor or by the call.                              *)
(***************************************************************************)
C16_TextPipelineRefusesUnknownName ==
    pc = "returned" => deduplication_mode \in Methods

RECURSIVE AppliedInOrder(_, _)
AppliedInOrder(ts, data) ==
    IF ts = <<>> THEN data
    ELSE AppliedInOrder(Tail(ts), ApplyOne(Head(ts), data))

(***************************************************************************)
(* C21: Pipeline.transform on a pipeline that has not been fitted raises   *)
(* RuntimeError; a call that raises it has applied no transform, produced  *)
(* no frame and left transforms, _fitted and the metadata as they were.    *)
(* On a fitted pipeline a transform that returns has applied every         *)
(* transform once, in list order, and returns the frame that makes.        *)
(***************************************************************************)
C21_TransformNeedsFit ==
    [][/\ pc' = "not_fitted" =>
            /\ ~_fitted
            /\ applied' = <<>> /\ result' = <<>>
            /\ UNCHANGED <<transforms, _fitted, metadata>>
       /\ (PipelineTransform /\ ~_fitted) => pc' = "not_fitted"
       /\ (PipelineTransform /\ _fitted /\ pc' = "returned") =>
            /\ applied' = [i \in DOMAIN transforms |-> i]
            /\ \E data \in Frames : result' = <<AppliedInOrder(transforms, data)>>]_vars

(***************************************************************************)
(* A returned Fuzzy call on three documents with text of which the first   *)
(* and the second are LSH candidates of each other, the second and the     *)
(* third as well, the first and the third not.                             *)
(***************************************************************************)
FuzzyMinhashAt(n) == _create_minhash(GetText(documents[n]))

FuzzyChainReturned ==
    /\ method = "fuzzy" /\ pc = "returned"
    /\ Len(documents) = 3
    /\ NonEmptyAt(documents) = {1, 2, 3}
    /\ Collide(FuzzyMinhashAt(1), FuzzyMinhashAt(2))
    /\ Collide(FuzzyMinhashAt(2), FuzzyMinhashAt(3))
    /\ ~Collide(FuzzyMinhashAt(1), FuzzyMinhashAt(3))

(***************************************************************************)
(* C22: on a fresh instance Fuzzy dedup does not merge through a dropped   *)
(* document: of A, B, C in this order, A and B colliding, B and C          *)
(* colliding, A and C not, it keeps A, drops B without inserting it, and   *)
(* keeps C, which is compared with A only.                                 *)
(***************************************************************************)
C22_FuzzyChainKeepsEnds ==
    FuzzyChainReturned =>
        /\ unique_docs = <<documents[1], documents[3]>>
        /\ duplicates = 1
        /\ lsh.keys = {DocId(0), DocId(2)}

C22_Witness ==
    /\ FuzzyChainReturned
    /\ documents = <<dA, dB, dC>>
    /\ unique_docs = <<dA, dC>>

\* C22 as stated: all three are merged through B, only A is kept
C22_FuzzyChainMergedThroughMiddle ==
    FuzzyChainReturned =>
        /\ unique_docs = <<documents[1]>>
        /\ duplicates = 2

(***************************************************************************)
(* C23: over any sequence of Fuzzy deduplicate calls on one instance, a    *)
(* document without candidates is kept and inserted under an identifier    *)
(* that the index, which holds every insert since construction or the last *)
(* reset, does not hold yet.                                               *)
(***************************************************************************)
C23_FuzzyInsertsUnderNewId ==
    [][(FuzzyProcess /\ CurSimilar = {}) =>
        /\ DocId(idx) \notin lsh.keys
        /\ Kept
        /\ lsh'.keys = lsh.keys \cup {DocId(idx)}]_vars

\* the LSH query of the document a SoftClusterStep places
SoftCurSimilar == Query(lsh, SoftCurMinhash)

(***************************************************************************)
(* C24: a SoftClusterStep whose query returns candidates appends the       *)
(* document's index to one cluster, the cluster of a candidate (the one    *)
(* the query returns first), and maps the index to it; every other cluster *)
(* and every other entry of the reverse map stays as it was, no cluster    *)
(* is added or removed, no new cluster id is taken.                        *)
(***************************************************************************)
C24_SoftJoinsFirstCandidatesCluster ==
    [][(SoftClusterStep /\ SoftCurSimilar # {}) =>
        \E c \in SoftCurSimilar :
            /\ c \in DOMAIN doc_to_cluster
            /\ LET cid == doc_to_cluster[c]
               IN  /\ DOMAIN clusters' = DOMAIN clusters
                   /\ clusters'[cid] = Append(clusters[cid], SoftCurIdx)
                   /\ \A o \in DOMAIN clusters \ {cid} : clusters'[o] = clusters[o]
                   /\ DOMAIN doc_to_cluster' = DOMAIN doc_to_cluster \cup {SoftCurIdx}
                   /\ doc_to_cluster'[SoftCurIdx] = cid
                   /\ \A i \in DOMAIN doc_to_cluster \ {SoftCurIdx} :
                        doc_to_cluster'[i] = doc_to_cluster[i]
                   /\ cluster_counter' = cluster_counter]_vars

\* dB has joined one of the clusters of its two candidates dA and dC
C24_Witness ==
    /\ method = "soft" /\ pc = "cluster" /\ idx = 3
    /\ documents = <<dA, dC, dB>>
    /\ Query(lsh, Soft_create_minhash(tB)) = {0, 1, 2}
    /\ doc_to_cluster[0] # doc_to_cluster[1]
    /\ doc_to_cluster[2] = doc_to_cluster[1]
    /\ Len(clusters[doc_to_cluster[0]]) = 1
    /\ Len(clusters[doc_to_cluster[1]]) = 2

(***************************************************************************)
(* A Soft call on three documents with text of which the first and the     *)
(* second are LSH candidates of each other, the second and the third as    *)
(* well, the first and the third not.                                      *)
(***************************************************************************)
SoftMinhashAt(n) == Soft_create_minhash(GetText(documents[n]))

SoftChain ==
    /\ method = "soft"
    /\ Len(documents) = 3
    /\ NonEmptyAt(documents) = {1, 2, 3}
    /\ Collide(SoftMinhashAt(1), SoftMinhashAt(2))
    /\ Collide(SoftMinhashAt(2), SoftMinhashAt(3))
    /\ ~Collide(SoftMinhashAt(1), SoftMinhashAt(3))

(***************************************************************************)
(* C25: every SoftClusterStep inserts the signature of its document into   *)
(* the index under the document's index, whether the document joined a     *)
(* cluster or seeded one; a call on a fresh instance with a chain A, B, C  *)
(* returns with all three in one cluster of size 3 and with one weight,    *)
(* max(reweight_factor, 1/3).                                              *)
(***************************************************************************)
C25_SoftIndexesEveryDocument ==
    [][/\ SoftClusterStep =>
            /\ lsh' = Insert(lsh, SoftCurIdx, SoftCurMinhash)
            /\ SoftCurIdx \in Query(lsh', SoftCurMinhash)
       /\ (SoftReturn /\ SoftChain) =>
            /\ doc_to_cluster[0] = doc_to_cluster[1]
            /\ doc_to_cluster[1] = doc_to_cluster[2]
            /\ clusters[doc_to_cluster[0]] = <<0, 1, 2>>
            /\ \A n \in 1..3 :
                 weighted_docs'[n]["weight"] = MaxWeight(reweight_factor, <<1, 3>>)]_vars

C25_Witness ==
    /\ SoftChain /\ pc = "returned"
    /\ documents = <<dA, dB, dC>>
    /\ DOMAIN clusters = {doc_to_cluster[2]}
    /\ Len(clusters[doc_to_cluster[2]]) = 3
    /\ \A n \in 1..3 : weighted_docs[n]["weight"] = Half

(***************************************************************************)
(* C26: over any sequence of calls on one instance, a SoftClusterStep      *)
(* whose query returns no candidate takes a cluster id that is no key of   *)
(* the cluster map, and the cluster it makes holds the document's index    *)
(* and nothing else.                                                       *)
(***************************************************************************)
C26_SoftSeedsUnderNewId ==
    [][(SoftClusterStep /\ SoftCurSimilar = {}) =>
        /\ ClusterId(cluster_counter) \notin DOMAIN clusters
        /\ clusters'[ClusterId(cluster_counter)] = <<SoftCurIdx>>
        /\ doc_to_cluster'[SoftCurIdx] = ClusterId(cluster_counter)]_vars

\* the clusters that hold the index i, and how often a list holds it
ClustersOf(cl, i) == {c \in DOMAIN cl : \E k \in DOMAIN cl[c] : cl[c][k] = i}

Occurrences(list, i) == Cardinality({k \in DOMAIN list : list[k] = i})

\* cluster map and reverse map agree, and no index is listed twice
MapsConsistent(cl, d2c) ==
    /\ \A i \in DOMAIN d2c : ClustersOf(cl, i) = {d2c[i]}
    /\ \A c \in DOMAIN cl : \A k \in DOMAIN cl[c] :
         /\ cl[c][k] \in DOMAIN d2c
         /\ Occurrences(cl[c], cl[c][k]) = 1

(***************************************************************************)
(* C27: in every reachable state of a Soft instance an index maps to       *)
(* cluster c if and only if it is a member of c, is a member of no other   *)
(* cluster and is listed once; a step that is no reset leaves every        *)
(* assigned index in its cluster and every cluster list a prefix of what   *)
(* it becomes.                                                             *)
(***************************************************************************)
C27_SoftMapsConsistentAppendOnly ==
    [][method = "soft" =>
        /\ MapsConsistent(clusters', doc_to_cluster')
        /\ ~SoftReset =>
             /\ \A i \in DOMAIN doc_to_cluster :
                  /\ i \in DOMAIN doc_to_cluster'
                  /\ doc_to_cluster'[i] = doc_to_cluster[i]
             /\ \A c \in DOMAIN clusters :
                  /\ c \in DOMAIN clusters'
                  /\ SubSeq(clusters'[c], 1, Len(clusters[c])) = clusters[c]]_vars

\* a text that is not empty and has fewer characters than one shingle once
\* it is lower-cased and its whitespace removed
TooShort(text) == text # tEmpty /\ Len(Normalize(text)) < self_ngram_size

\* the signature no token was put into
Sentinel == [k \in 1..num_perm |-> MaxHash]

\* the documents of the running Soft call that were placed before the
\* current one and are too short
ShortPlacedBefore ==
    {j \in 0..(SoftCurIdx - 1) : TooShort(GetText(documents[j + 1]))}

(***************************************************************************)
(* C28: a text that is too short for one shingle of ngram_size characters  *)
(* gets the sentinel signature.  Fuzzy dedup drops such a document when    *)
(* the index holds one of them, so it never holds two; Soft dedup maps     *)
(* such a document to the cluster of every such document placed before it  *)
(* in the call.                                                            *)
(***************************************************************************)
C28_TooShortTextsCollide ==
    [][/\ (FuzzyProcess /\ TooShort(GetText(CurDoc))) =>
            /\ CurMinhash = Sentinel
            /\ (\E key \in lsh.keys : doc_minhashes[key] = Sentinel) => Dropped
            /\ Cardinality({key \in DOMAIN doc_minhashes' :
                               doc_minhashes'[key] = Sentinel}) <= 1
       /\ (SoftClusterStep /\ TooShort(GetText(documents[SoftCurIdx + 1]))) =>
            /\ SoftCurMinhash = Sentinel
            /\ \A j \in ShortPlacedBefore :
                 doc_to_cluster'[SoftCurIdx] = doc_to_cluster'[j]]_vars

\* no two signatures of the index share a bucket
PairwiseApart(index, minhashes) ==
    /\ DOMAIN minhashes = index.keys
    /\ \A k1 \in index.keys : \A k2 \in index.keys \ {k1} :
         ~Collide(minhashes[k1], minhashes[k2])

\* the kept documents, all those in the index, that are LSH candidates of
\* the document a FuzzyStep processes
KeptCandidates == {key \in lsh.keys : Collide(doc_minhashes[key], CurMinhash)}

(***************************************************************************)
(* C29: through any sequence of Fuzzy calls and resets, the documents kept *)
(* since construction or the last reset, which are those in the index, are *)
(* pairwise no LSH candidates; a document that is dropped is a candidate   *)
(* of a document kept before it, and a document that is kept is a          *)
(* candidate of none.                                                      *)
(***************************************************************************)
C29_FuzzyKeptSetIsApart ==
    [][method = "fuzzy" =>
        /\ PairwiseApart(lsh', doc_minhashes')
        /\ (FuzzyProcess /\ Dropped) => KeptCandidates # {}
        /\ (FuzzyProcess /\ Kept) => KeptCandidates = {}]_vars

\* the second call of an instance dropped dB for the dA of its first call
\* and kept dC
C29_Witness ==
    /\ method = "fuzzy" /\ pc = "returned"
    /\ documents = <<dB, dC>>
    /\ unique_docs = <<dC>> /\ duplicates = 1
    /\ lsh.keys = {DocId(0), DocId(1)}
    /\ doc_minhashes[DocId(0)] = _create_minhash(tA)
    /\ doc_minhashes[DocId(1)] = _create_minhash(tC)

(***************************************************************************)
(* C30: two runs of Soft dedup on fresh instances with one configuration   *)
(* and one input return the same weights, whatever the order in which the  *)
(* LSH queries returned their candidates: a run returns for an input the   *)
(* weights that the run the caller noted returned for it.                  *)
(***************************************************************************)
C30_SoftWeightsIndependentOfCandidateOrder ==
    (method = "soft" /\ pc = "returned") =>
        \A run \in earlier :
            run[1] = documents =>
                \A n \in DOMAIN documents :
                    weighted_docs[n]["weight"] = run[2][n]["weight"]
====
